---- MODULE Spec2Model ----
(***************************************************************************)
(* FocusLog: the task tree, its id-addressed operations, the persistence   *)
(* of the tree in localStorage and the query pipeline of the view.         *)
(*                                                                         *)
(* The repository holds two App components that share the storage key     *)
(* 'focuslog_tasks_v1': src/App.tsx keeps one level of subtasks and        *)
(* addresses them by (taskId, subtaskId) ("flat"); the App of             *)
(* src/unnamed/part_001 (from line 669) works on arbitrarily nested        *)
(* subtasks through the helpers of src/utils.ts ("tree").                  *)
(*                                                                         *)
(* Strings are sequences of one-character strings.  ISO timestamps are     *)
(* natural numbers (clock readings); a property whose value is the         *)
(* JavaScript value undefined holds Undefined.  A JavaScript object is a   *)
(* function from the names of its own properties to their values.          *)
(*                                                                         *)
(* Neither App has an error boundary: an error thrown by the initializer,  *)
(* by a render or by an effect unmounts the App (crashed).                 *)
(*                                                                         *)
(* Spec is a session of either App over what an earlier session has left   *)
(* in the storage; ViewSpec starts from two root tasks and is used for the *)
(* query pipeline, InputSpec is a session at the task input, QuotaSpec     *)
(* lets the storage reach its quota and FilterSpec lets the user select    *)
(* tags on the filter.                                                     *)
(***************************************************************************)
EXTENDS Integers, Sequences, FiniteSets, TLC

VARIABLES build, tasks, storage, now, crashed, lastOp, steps,
          inputValue, selectionStart, suggestedTags, selectedTagIndex,
          quotaExceeded, selectedTags

\* the task input of the App: its text, the position of its caret, the tags
\* suggested under it and the suggestion that is highlighted
inputVars == <<inputValue, selectionStart, suggestedTags, selectedTagIndex>>

\* quotaExceeded: the storage refuses every write, localStorage.setItem throws
\* selectedTags: the tags selected on the filter
vars ==
  <<build, tasks, storage, now, crashed, lastOp, steps, inputVars, quotaExceeded,
    selectedTags>>

----------------------------------------------------------------------------
(* Bounds of the model *)

MaxTime == 3
MaxSteps == 3
MaxNodes == 3

----------------------------------------------------------------------------
(* Values *)

Undefined == -1

Builds == {"flat", "tree"}

EmptyObject == [f \in {} |-> 0]

Has(o, f) == f \in DOMAIN o

\* the values of the part of Math.random() that generateId keeps
Rands == {1, 2}

\* the clock readings: those of an earlier session, then those of this one
EarlierTimes == {0, 1}
Times == 0..MaxTime

generateId(r, t) == <<r, t>>

AllIds == Rands \X Times

----------------------------------------------------------------------------
(* Strings *)

Space == " "
Hash == "#"
WordChars ==
  { "a", "e", "g", "h", "l", "n", "r", "s", "t", "u", "w", "y", "A", "U", "_" }
TagChars == WordChars \cup {"-"}

RECURSIVE TrimStart(_)
TrimStart(s) ==
  IF s # <<>> /\ Head(s) = Space THEN TrimStart(Tail(s)) ELSE s

RECURSIVE TrimEnd(_)
TrimEnd(s) ==
  IF s # <<>> /\ s[Len(s)] = Space THEN TrimEnd(SubSeq(s, 1, Len(s) - 1)) ELSE s

\* trim that leaves the spaces in place
trimNothing(s) == s

trim(s) == TrimEnd(TrimStart(s))

\* the end of the longest run of tag characters that starts at position i
RECURSIVE RunEnd(_, _)
RunEnd(s, i) ==
  IF i + 1 <= Len(s) /\ s[i + 1] \in TagChars THEN RunEnd(s, i + 1) ELSE i

\* the matches of /#[\w-]+/g from position i on, as <<first, last>> pairs
RECURSIVE TagMatches(_, _)
TagMatches(s, i) ==
  IF i > Len(s) THEN <<>>
  ELSE IF s[i] = Hash /\ i + 1 <= Len(s) /\ s[i + 1] \in TagChars
       THEN <<(<<i, RunEnd(s, i + 1)>>)>> \o TagMatches(s, RunEnd(s, i + 1) + 1)
       ELSE TagMatches(s, i + 1)

\* s without the characters of the matches
RECURSIVE RemoveMatches(_, _, _)
RemoveMatches(s, ms, i) ==
  IF i > Len(s) THEN <<>>
  ELSE IF ms # <<>> /\ i = ms[1][1]
       THEN RemoveMatches(s, Tail(ms), ms[1][2] + 1)
       ELSE <<s[i]>> \o RemoveMatches(s, ms, i + 1)

\* parseTaskInput that leaves the '#' on the tags
parseTaskInputWithHash(input) ==
  LET ms    == TagMatches(input, 1)
      tags  == [k \in 1..Len(ms) |-> SubSeq(input, ms[k][1], ms[k][2])]
      title == trim(RemoveMatches(input, ms, 1))
  IN  [title |-> IF title # <<>> THEN title ELSE input, tags |-> tags]

\* parseTaskInput without the fallback to the input
parseTaskInputNoFallback(input) ==
  LET ms    == TagMatches(input, 1)
      tags  == [k \in 1..Len(ms) |-> SubSeq(input, ms[k][1] + 1, ms[k][2])]
      title == trim(RemoveMatches(input, ms, 1))
  IN  [title |-> title, tags |-> tags]

parseTaskInput(input) ==
  LET ms    == TagMatches(input, 1)
      tags  == [k \in 1..Len(ms) |-> SubSeq(input, ms[k][1] + 1, ms[k][2])]
      title == trim(RemoveMatches(input, ms, 1))
  IN  [title |-> IF title # <<>> THEN title ELSE input, tags |-> tags]

\* what the user types into the task and subtask inputs
RawInputs == { <<"a">>, <<"#", "w">>, <<" ">>, <<>> }

\* what the user types into the description box
Descriptions == { <<"a">> }

----------------------------------------------------------------------------
(* Nodes *)

\* item.id === id
IdIs(item, id) == Has(item, "id") /\ item.id = id

\* item.subtasks && item.subtasks.length > 0
HasSubtasks(item) == Has(item, "subtasks") /\ Len(item.subtasks) > 0

\* { ...item, ...updates }
Spread(item, updates) == updates @@ item

\* item.subtasks, read as the empty list where the property is absent
SubtasksOf(item) == IF Has(item, "subtasks") THEN item.subtasks ELSE <<>>

\* all nodes of a list of trees, parents before children, left to right
RECURSIVE Flatten(_)
Flatten(items) ==
  IF items = <<>> THEN <<>>
  ELSE <<Head(items)>> \o Flatten(SubtasksOf(Head(items))) \o Flatten(Tail(items))

CountNodes(items) == Len(Flatten(items))

IdsOf(items) ==
  LET ns == Flatten(items) IN { ns[i].id : i \in { j \in 1..Len(ns) : Has(ns[j], "id") } }

DistinctIds(items) ==
  LET ns == Flatten(items)
  IN  \A i, j \in 1..Len(ns) :
        i # j /\ Has(ns[i], "id") /\ Has(ns[j], "id") => ns[i].id # ns[j].id

\* the value of a completedAt property: undefined when the property is absent
CompletedAtOf(item) == IF Has(item, "completedAt") THEN item.completedAt ELSE Undefined

----------------------------------------------------------------------------
(* Recursive tree helpers, src/utils.ts *)

\* toggleInTree that stamps completedAt also when it uncompletes
RECURSIVE toggleInTreeKeepsStamp(_, _, _)
toggleInTreeKeepsStamp(items, id, t) ==
  [i \in 1..Len(items) |->
     LET item == items[i] IN
     IF IdIs(item, id)
     THEN Spread(item, [isCompleted |-> ~item.isCompleted,
                        completedAt |-> t,
                        updatedAt   |-> t])
     ELSE IF HasSubtasks(item)
          THEN Spread(item, [subtasks |-> toggleInTreeKeepsStamp(item.subtasks, id, t)])
          ELSE item]

\* toggleInTree that completes instead of flipping
RECURSIVE toggleInTreeCompletes(_, _, _)
toggleInTreeCompletes(items, id, t) ==
  [i \in 1..Len(items) |->
     LET item == items[i] IN
     IF IdIs(item, id)
     THEN Spread(item, [isCompleted |-> TRUE, completedAt |-> t, updatedAt |-> t])
     ELSE IF HasSubtasks(item)
          THEN Spread(item, [subtasks |-> toggleInTreeCompletes(item.subtasks, id, t)])
          ELSE item]

\* toggleInTree that gives the subtasks of the node its new isCompleted
RECURSIVE toggleInTreeCascades(_, _, _)
toggleInTreeCascades(items, id, t) ==
  [i \in 1..Len(items) |->
     LET item == items[i] IN
     IF IdIs(item, id)
     THEN Spread(item, [isCompleted |-> ~item.isCompleted,
                        completedAt |-> IF ~item.isCompleted THEN t ELSE Undefined,
                        updatedAt   |-> t,
                        subtasks    |-> [k \in 1..Len(SubtasksOf(item)) |->
                                           Spread(SubtasksOf(item)[k],
                                                  [isCompleted |-> ~item.isCompleted])]])
     ELSE IF HasSubtasks(item)
          THEN Spread(item, [subtasks |-> toggleInTreeCascades(item.subtasks, id, t)])
          ELSE item]

RECURSIVE toggleInTree(_, _, _)
toggleInTree(items, id, t) ==
  [i \in 1..Len(items) |->
     LET item == items[i] IN
     IF IdIs(item, id)
     THEN Spread(item, [isCompleted |-> ~item.isCompleted,
                        completedAt |-> IF ~item.isCompleted THEN t ELSE Undefined,
                        updatedAt   |-> t])
     ELSE IF HasSubtasks(item)
          THEN Spread(item, [subtasks |-> toggleInTree(item.subtasks, id, t)])
          ELSE item]

RECURSIVE updateInTree(_, _, _, _)
updateInTree(items, id, updates, t) ==
  [i \in 1..Len(items) |->
     LET item == items[i] IN
     IF IdIs(item, id)
     THEN Spread(Spread(item, updates), [updatedAt |-> t])
     ELSE IF HasSubtasks(item)
          THEN Spread(item, [subtasks |-> updateInTree(item.subtasks, id, updates, t)])
          ELSE item]

\* deleteFromTree that looks at the top level only
deleteFromTreeTopLevel(items, id) == SelectSeq(items, LAMBDA item : ~IdIs(item, id))

RECURSIVE deleteFromTree(_, _)
deleteFromTree(items, id) ==
  LET kept == SelectSeq(items, LAMBDA item : ~IdIs(item, id))
  IN  [i \in 1..Len(kept) |->
         LET item == kept[i] IN
         IF HasSubtasks(item)
         THEN Spread(item, [subtasks |-> deleteFromTree(item.subtasks, id)])
         ELSE item]

\* addToTree that falls back to the end of the list when no parent is found
RECURSIVE addToTreeOrAppend(_, _, _)
addToTreeOrAppend(items, parentId, newSubtask) ==
  IF parentId \notin IdsOf(items) THEN Append(items, newSubtask)
  ELSE [i \in 1..Len(items) |->
          LET item == items[i] IN
          IF IdIs(item, parentId)
          THEN Spread(item, [subtasks |-> Append(SubtasksOf(item), newSubtask)])
          ELSE IF HasSubtasks(item)
               THEN Spread(item, [subtasks |->
                      addToTreeOrAppend(item.subtasks, parentId, newSubtask)])
               ELSE item]

\* addToTree that puts the new subtask first
RECURSIVE addToTreeFirst(_, _, _)
addToTreeFirst(items, parentId, newSubtask) ==
  [i \in 1..Len(items) |->
     LET item == items[i] IN
     IF IdIs(item, parentId)
     THEN Spread(item, [subtasks |-> <<newSubtask>> \o SubtasksOf(item)])
     ELSE IF HasSubtasks(item)
          THEN Spread(item, [subtasks |->
                 addToTreeFirst(item.subtasks, parentId, newSubtask)])
          ELSE item]

RECURSIVE addToTree(_, _, _)
addToTree(items, parentId, newSubtask) ==
  [i \in 1..Len(items) |->
     LET item == items[i] IN
     IF IdIs(item, parentId)
     THEN Spread(item, [subtasks |-> Append(SubtasksOf(item), newSubtask)])
     ELSE IF HasSubtasks(item)
          THEN Spread(item, [subtasks |-> addToTree(item.subtasks, parentId, newSubtask)])
          ELSE item]

----------------------------------------------------------------------------
(* New nodes *)

\* the Task literal of addTask
NewTask(id, parsed, t) ==
  [id |-> id, title |-> parsed.title, tags |-> parsed.tags, isCompleted |-> FALSE,
   createdAt |-> t, updatedAt |-> t, subtasks |-> <<>>]

\* the Subtask literal with the id of the parent for its own
NewSubtaskWithParentId(id, parentId, title, tags, t) ==
  [id |-> parentId, parentId |-> parentId, title |-> title, tags |-> tags,
   isCompleted |-> FALSE, createdAt |-> t, updatedAt |-> t, subtasks |-> <<>>]

\* the Subtask literal with its own id for the id of the parent
NewSubtaskOfItself(id, parentId, title, tags, t) ==
  [id |-> id, parentId |-> id, title |-> title, tags |-> tags,
   isCompleted |-> FALSE, createdAt |-> t, updatedAt |-> t, subtasks |-> <<>>]

\* the Subtask literal of handleAddSubtask
NewSubtask(id, parentId, title, tags, t) ==
  [id |-> id, parentId |-> parentId, title |-> title, tags |-> tags,
   isCompleted |-> FALSE, createdAt |-> t, updatedAt |-> t, subtasks |-> <<>>]

\* the Subtask literal of addSubtask in src/App.tsx
NewFlatSubtask(id, taskId, title, tags, t) ==
  [id |-> id, parentId |-> taskId, title |-> title, tags |-> tags,
   isCompleted |-> FALSE, createdAt |-> t, updatedAt |-> t]

----------------------------------------------------------------------------
(* State updaters of src/App.tsx, which address one level of subtasks *)

updateTask(prev, id, updates, t) ==
  [i \in 1..Len(prev) |->
     IF IdIs(prev[i], id)
     THEN Spread(Spread(prev[i], updates), [updatedAt |-> t])
     ELSE prev[i]]

toggleTask(prev, id, t) ==
  [i \in 1..Len(prev) |->
     LET task == prev[i] IN
     IF ~IdIs(task, id) THEN task
     ELSE Spread(task, [isCompleted |-> ~task.isCompleted,
                        completedAt |-> IF ~task.isCompleted THEN t ELSE Undefined,
                        updatedAt   |-> t])]

deleteTask(prev, id) == SelectSeq(prev, LAMBDA task : ~IdIs(task, id))

addSubtask(prev, taskId, title, tags, id, t) ==
  [i \in 1..Len(prev) |->
     LET task == prev[i] IN
     IF ~IdIs(task, taskId) THEN task
     ELSE Spread(task, [subtasks |->
            Append(task.subtasks, NewFlatSubtask(id, taskId, title, tags, t))])]

updateSubtask(prev, taskId, subtaskId, updates, t) ==
  [i \in 1..Len(prev) |->
     LET task == prev[i] IN
     IF ~IdIs(task, taskId) THEN task
     ELSE Spread(task, [subtasks |->
            [k \in 1..Len(task.subtasks) |->
               LET st == task.subtasks[k] IN
               IF ~IdIs(st, subtaskId) THEN st
               ELSE Spread(Spread(st, updates), [updatedAt |-> t])]])]

toggleSubtask(prev, taskId, subtaskId, t) ==
  [i \in 1..Len(prev) |->
     LET task == prev[i] IN
     IF ~IdIs(task, taskId) THEN task
     ELSE Spread(task, [subtasks |->
            [k \in 1..Len(task.subtasks) |->
               LET st == task.subtasks[k] IN
               IF ~IdIs(st, subtaskId) THEN st
               ELSE Spread(st, [isCompleted |-> ~st.isCompleted,
                                completedAt |-> IF ~st.isCompleted THEN t
                                                ELSE Undefined])]])]

deleteSubtask(prev, taskId, subtaskId) ==
  [i \in 1..Len(prev) |->
     LET task == prev[i] IN
     IF ~IdIs(task, taskId) THEN task
     ELSE Spread(task, [subtasks |->
            SelectSeq(task.subtasks, LAMBDA st : ~IdIs(st, subtaskId))])]

----------------------------------------------------------------------------
(* Persistence.                                                            *)
(* A blob is what localStorage holds under STORAGE_KEY: nothing ("none"),  *)
(* text that is not JSON ("text"), the JSON text null ("null"), or the     *)
(* JSON text of an array ("array", with the array as value).               *)

Blob(kind, value) == [kind |-> kind, value |-> value]

\* JSON.stringify leaves out the properties whose value is undefined
RECURSIVE StripUndefined(_)
StripUndefined(items) ==
  [i \in 1..Len(items) |->
     LET item == items[i]
         keys == { f \in DOMAIN item : ~(f = "completedAt" /\ item[f] = Undefined) }
     IN  [f \in keys |-> IF f = "subtasks" THEN StripUndefined(item[f]) ELSE item[f]]]

JSONstringify(items) == Blob("array", StripUndefined(items))

\* sanitize that resets every subtasks list
sanitizeResets(items) ==
  [i \in 1..Len(items) |-> Spread(items[i], [subtasks |-> <<>>])]

RECURSIVE sanitize(_)
sanitize(items) ==
  [i \in 1..Len(items) |->
     LET item == items[i] IN
     Spread(item, [subtasks |-> IF Has(item, "subtasks")
                                THEN sanitize(item.subtasks) ELSE <<>>])]

\* the useState initializer of the tree App: the list of tasks it returns and
\* whether it throws
LoadTree(saved) ==
  IF saved.kind = "array"
  THEN [tasks |-> sanitize(saved.value), threw |-> FALSE]
  ELSE [tasks |-> <<>>, threw |-> FALSE]

\* the useState initializer of src/App.tsx; JSON.parse throws on text that is
\* not JSON; for the JSON text null it returns null, on which the first render
\* throws (tasks.forEach), reported here as threw
LoadFlat(saved) ==
  CASE saved.kind = "none"  -> [tasks |-> <<>>, threw |-> FALSE]
    [] saved.kind = "array" -> [tasks |-> saved.value, threw |-> FALSE]
    [] saved.kind = "text"  -> [tasks |-> <<>>, threw |-> TRUE]
    [] saved.kind = "null"  -> [tasks |-> <<>>, threw |-> TRUE]

Load(b, saved) == IF b = "tree" THEN LoadTree(saved) ELSE LoadFlat(saved)

\* the first render reads item.tags of every node it visits (allTags)
RenderThrows(b, items) ==
  IF b = "tree"
  THEN \E i \in 1..Len(Flatten(items)) : ~Has(Flatten(items)[i], "tags")
  ELSE \E i \in 1..Len(items) :
         \/ ~Has(items[i], "tags")
         \/ ~Has(items[i], "subtasks")
         \/ \E k \in 1..Len(SubtasksOf(items[i])) : ~Has(items[i].subtasks[k], "tags")

\* the tree an earlier session of the tree App has built at the times 0 and 1:
\* a task, its subtask, completed at time 1, and a tagged subtask of that one
EarlierTasks ==
  LET root  == NewTask(generateId(1, 0), parseTaskInput(<<"a">>), 0)
      sub   == NewSubtask(generateId(2, 0), root.id, <<"a">>, <<>>, 0)
      deep  == NewSubtask(generateId(1, 1), sub.id, parseTaskInput(<<"#", "w">>).title,
                          parseTaskInput(<<"#", "w">>).tags, 1)
  IN  toggleInTree(addToTree(addToTree(<<root>>, root.id, sub), sub.id, deep),
                   sub.id, 1)

\* the first clock reading of the session
StartTime == Cardinality(EarlierTimes)

\* blobs found in the storage when the session starts
PersistedBlobs ==
  { Blob("none", <<>>), Blob("text", <<>>), Blob("null", <<>>),
    Blob("array", <<EmptyObject>>), JSONstringify(EarlierTasks) }

\* a start of the App b on the blob saved: the initializer, the first render
\* and, when neither throws, the persistence effect
Startup(b, saved) ==
  LET r      == Load(b, saved)
      failed == r.threw \/ RenderThrows(b, r.tasks)
  IN  [tasks   |-> r.tasks,
       crashed |-> failed,
       storage |-> IF failed THEN saved ELSE JSONstringify(r.tasks)]

----------------------------------------------------------------------------
(* The tag criterion of filteredTasks *)

\* array.includes(x)
Includes(array, x) == \E k \in 1..Len(array) : array[k] = x

\* selectedTags.some(tag => item.tags.includes(tag))
SomeSelected(selected, tags) ==
  \E k \in 1..Len(selected) : Includes(tags, selected[k])

RECURSIVE hasTagRecursive(_, _)
hasTagRecursive(item, selected) ==
  \/ SomeSelected(selected, item.tags)
  \/ /\ Has(item, "subtasks")
     /\ \E k \in 1..Len(item.subtasks) : hasTagRecursive(item.subtasks[k], selected)

\* the criterion in the tree App
TagCriterionTree(task, selected) ==
  Len(selected) > 0 => hasTagRecursive(task, selected)

\* the criterion in src/App.tsx: the tags of the task and of task.subtasks
TagCriterionFlat(task, selected) ==
  Len(selected) > 0 =>
    LET taskTags == { task.tags[k] : k \in 1..Len(task.tags) } \cup
                    UNION { { task.subtasks[j].tags[k] : k \in 1..Len(task.subtasks[j].tags) } :
                            j \in 1..Len(task.subtasks) }
    IN  \E k \in 1..Len(selected) : selected[k] \in taskTags

TagCriterion(b, task, selected) ==
  IF b = "tree" THEN TagCriterionTree(task, selected)
  ELSE TagCriterionFlat(task, selected)

\* the selections of tags tried on the filter
TagSelections == { <<>>, <<(<<"w">>)>>, <<(<<"h">>)>>, <<(<<"h">>), (<<"w">>)>> }

----------------------------------------------------------------------------
(* The query pipeline: filteredTasks, sortedTasks, groupedCompletedTasks   *)
(* and the branch of the render that shows them.  The calendar date of a   *)
(* timestamp, completedAt.split('T')[0], is the day the clock reading      *)
(* falls in; a day holds two readings.                                     *)

\* the values of statusFilter
StatusFilters == { "all", "active", "completed" }

\* the empty completionDateFilter, ''
NoDate == -1

\* completedAt.split('T')[0]
DateOf(completedAt) == completedAt \div 2

\* the values the date input gives completionDateFilter
DateFilters == { NoDate } \cup { DateOf(t) : t \in Times }

\* String.prototype.toLowerCase
UpperCase == { "A", "U" }

LowerCaseOf(c) == IF c = "A" THEN "a" ELSE IF c = "U" THEN "u" ELSE c

toLowerCase(s) == [i \in 1..Len(s) |-> LowerCaseOf(s[i])]

\* String.prototype.includes
includes(s, search) ==
  \E i \in 0..(Len(s) - Len(search)) : SubSeq(s, i + 1, i + Len(search)) = search

\* String.prototype.startsWith
startsWith(s, search) ==
  Len(search) <= Len(s) /\ SubSeq(s, 1, Len(search)) = search

\* the values typed into the search box
SearchQueries == { <<>>, <<"A">>, <<"w">> }

\* the predicate that compares the whole timestamp with the filter date
PassesFilterByTimestamp(b, task, statusFilter, searchQuery, completionDateFilter, selected) ==
  IF statusFilter = "active" /\ task.isCompleted THEN FALSE
  ELSE IF statusFilter = "completed" /\ ~task.isCompleted THEN FALSE
  ELSE IF searchQuery # <<>> /\ ~includes(toLowerCase(task.title), toLowerCase(searchQuery))
       THEN FALSE
  ELSE IF completionDateFilter # NoDate /\ CompletedAtOf(task) = Undefined THEN FALSE
  ELSE IF completionDateFilter # NoDate /\ task.completedAt # completionDateFilter
       THEN FALSE
  ELSE TagCriterion(b, task, selected)

\* the predicate of tasks.filter in filteredTasks
PassesFilter(b, task, statusFilter, searchQuery, completionDateFilter, selected) ==
  IF statusFilter = "active" /\ task.isCompleted THEN FALSE
  ELSE IF statusFilter = "completed" /\ ~task.isCompleted THEN FALSE
  ELSE IF searchQuery # <<>> /\ ~includes(toLowerCase(task.title), toLowerCase(searchQuery))
       THEN FALSE
  ELSE IF completionDateFilter # NoDate /\ CompletedAtOf(task) = Undefined THEN FALSE
  ELSE IF completionDateFilter # NoDate /\ DateOf(task.completedAt) # completionDateFilter
       THEN FALSE
  ELSE TagCriterion(b, task, selected)

filteredTasks(b, items, statusFilter, searchQuery, completionDateFilter, selected) ==
  SelectSeq(items, LAMBDA task :
    PassesFilter(b, task, statusFilter, searchQuery, completionDateFilter, selected))

\* Array.prototype.sort: a stable sort by the comparator cmp; x goes before
\* the first element the comparator puts after it
InsertSorted(sorted, x, cmp(_, _)) ==
  LET after == { i \in 1..Len(sorted) : cmp(sorted[i], x) > 0 }
      p     == IF after = {} THEN Len(sorted) + 1
               ELSE CHOOSE i \in after : \A j \in after : i <= j
  IN  SubSeq(sorted, 1, p - 1) \o <<x>> \o SubSeq(sorted, p, Len(sorted))

sort(array, cmp(_, _)) ==
  LET sorted[n \in 0..Len(array)] ==
        IF n = 0 THEN <<>> ELSE InsertSorted(sorted[n - 1], array[n], cmp)
  IN  sorted[Len(array)]

\* a.localeCompare(b) of two timestamps (or of '' for a missing one)
CompareTimes(a, b) == IF a < b THEN -1 ELSE IF a > b THEN 1 ELSE 0

\* the comparator that puts the incomplete task created first on top
CompareTasksOldestFirst(a, b) ==
  IF a.isCompleted /\ ~b.isCompleted THEN 1
  ELSE IF ~a.isCompleted /\ b.isCompleted THEN -1
  ELSE IF a.isCompleted /\ b.isCompleted
       THEN CompareTimes(CompletedAtOf(b), CompletedAtOf(a))
  ELSE CompareTimes(a.createdAt, b.createdAt)

\* the comparator of sortedTasks
CompareTasks(a, b) ==
  IF a.isCompleted /\ ~b.isCompleted THEN 1
  ELSE IF ~a.isCompleted /\ b.isCompleted THEN -1
  ELSE IF a.isCompleted /\ b.isCompleted
       THEN CompareTimes(CompletedAtOf(b), CompletedAtOf(a))
  ELSE CompareTimes(b.createdAt, a.createdAt)

sortedTasks(filtered) == sort(filtered, CompareTasks)

\* the groups when the forEach takes the date of createdAt
RECURSIVE GroupsAfterByCreation(_, _)
GroupsAfterByCreation(sorted, n) ==
  IF n = 0 THEN <<>>
  ELSE LET groups == GroupsAfterByCreation(sorted, n - 1)
           task   == sorted[n]
       IN  IF CompletedAtOf(task) = Undefined THEN groups
           ELSE LET date == DateOf(task.createdAt) IN
                IF \E g \in 1..Len(groups) : groups[g].date = date
                THEN [g \in 1..Len(groups) |->
                        IF groups[g].date = date
                        THEN [groups[g] EXCEPT !.tasks = Append(@, task)]
                        ELSE groups[g]]
                ELSE Append(groups, [date |-> date, tasks |-> <<task>>])

\* the groups when the forEach assigns [task] to the date instead of pushing
RECURSIVE GroupsAfterLastOfDate(_, _)
GroupsAfterLastOfDate(sorted, n) ==
  IF n = 0 THEN <<>>
  ELSE LET groups == GroupsAfterLastOfDate(sorted, n - 1)
           task   == sorted[n]
       IN  IF CompletedAtOf(task) = Undefined THEN groups
           ELSE LET date == DateOf(task.completedAt) IN
                IF \E g \in 1..Len(groups) : groups[g].date = date
                THEN [g \in 1..Len(groups) |->
                        IF groups[g].date = date
                        THEN [groups[g] EXCEPT !.tasks = <<task>>]
                        ELSE groups[g]]
                ELSE Append(groups, [date |-> date, tasks |-> <<task>>])

\* groups after the forEach of groupedCompletedTasks has visited the first n
\* tasks: the dates in the order of their insertion, each with its tasks
RECURSIVE GroupsAfter(_, _)
GroupsAfter(sorted, n) ==
  IF n = 0 THEN <<>>
  ELSE LET groups == GroupsAfter(sorted, n - 1)
           task   == sorted[n]
       IN  IF CompletedAtOf(task) = Undefined THEN groups
           ELSE LET date == DateOf(task.completedAt) IN
                IF \E g \in 1..Len(groups) : groups[g].date = date
                THEN [g \in 1..Len(groups) |->
                        IF groups[g].date = date
                        THEN [groups[g] EXCEPT !.tasks = Append(@, task)]
                        ELSE groups[g]]
                ELSE Append(groups, [date |-> date, tasks |-> <<task>>])

\* groupedCompletedTasks: null, or the groups
groupedCompletedTasks(sorted, statusFilter, completionDateFilter) ==
  IF statusFilter # "completed" /\ completionDateFilter = NoDate
  THEN [null |-> TRUE, groups |-> <<>>]
  ELSE [null |-> FALSE, groups |-> GroupsAfter(sorted, Len(sorted))]

\* b.localeCompare(a) of two dates
CompareDatesDescending(a, b) == CompareTimes(b.date, a.date)

\* what the main zone of the App shows
MainZone(b, items, statusFilter, searchQuery, completionDateFilter, selected) ==
  LET sorted  == sortedTasks(filteredTasks(b, items, statusFilter, searchQuery,
                                           completionDateFilter, selected))
      grouped == groupedCompletedTasks(sorted, statusFilter, completionDateFilter)
  IN  IF Len(sorted) = 0 THEN [shows |-> "empty"]
      ELSE IF (statusFilter = "completed" \/ completionDateFilter # NoDate)
              /\ ~grouped.null
           THEN [shows |-> "groups",
                 groups |-> sort(grouped.groups, CompareDatesDescending)]
      ELSE [shows |-> "tasks", tasks |-> sorted]

----------------------------------------------------------------------------
(* The tag index, allTags *)

\* the characters of the model in the order of their UTF-16 code units
CodeUnitOrder ==
  << " ", "#", "-", "A", "U", "_", "a", "e", "g", "h", "l", "n", "r", "s", "t", "u",
     "w", "y" >>

\* the characters in the order of the collation localeCompare uses: spaces,
\* punctuation, letters; a capital letter differs from its small letter on
\* the last level only
CollationOrder ==
  << " ", "_", "-", "#", "a", "e", "g", "h", "l", "n", "r", "s", "t", "u", "w", "y" >>

RankIn(order, c) == CHOOSE i \in 1..Len(order) : order[i] = c

CodeUnit(c) == RankIn(CodeUnitOrder, c)

PrimaryWeight(c) == RankIn(CollationOrder, LowerCaseOf(c))

CaseWeight(c) == IF c \in UpperCase THEN 1 ELSE 0

\* the comparison of two strings character by character on one weight
CompareBy(a, b, weight(_)) ==
  LET shorter == IF Len(a) < Len(b) THEN Len(a) ELSE Len(b)
      differ  == { i \in 1..shorter : weight(a[i]) # weight(b[i]) }
  IN  IF differ = {} THEN CompareTimes(Len(a), Len(b))
      ELSE LET i == CHOOSE d \in differ : \A e \in differ : d <= e
           IN  IF weight(a[i]) < weight(b[i]) THEN -1 ELSE 1

\* a.localeCompare(b)
localeCompare(a, b) ==
  IF CompareBy(a, b, PrimaryWeight) # 0 THEN CompareBy(a, b, PrimaryWeight)
  ELSE CompareBy(a, b, CaseWeight)

\* the comparison of Array.prototype.sort without a comparator
CompareCodeUnits(a, b) == CompareBy(a, b, CodeUnit)

\* Array.from(new Set(array)): the values in the order of their first insertion
RECURSIVE ArrayFromSet(_)
ArrayFromSet(array) ==
  IF array = <<>> THEN <<>>
  ELSE LET front == ArrayFromSet(SubSeq(array, 1, Len(array) - 1))
           last  == array[Len(array)]
       IN  IF Includes(front, last) THEN front ELSE Append(front, last)

\* the tags collectTags adds, in the order it adds them
RECURSIVE collectTags(_)
collectTags(items) ==
  IF items = <<>> THEN <<>>
  ELSE Head(items).tags
       \o (IF Has(Head(items), "subtasks") THEN collectTags(Head(items).subtasks) ELSE <<>>)
       \o collectTags(Tail(items))

CompareLowerCase(a, b) == localeCompare(toLowerCase(a), toLowerCase(b))

\* allTags of the tree App
allTagsTree(items) == sort(ArrayFromSet(collectTags(items)), CompareLowerCase)

\* the tags the forEach of allTags in src/App.tsx adds: those of the tasks
\* and of the subtasks of the tasks
RECURSIVE TagsOfEach(_)
TagsOfEach(items) ==
  IF items = <<>> THEN <<>> ELSE Head(items).tags \o TagsOfEach(Tail(items))

RECURSIVE TagsOfTasksAndSubtasks(_)
TagsOfTasksAndSubtasks(items) ==
  IF items = <<>> THEN <<>>
  ELSE Head(items).tags \o TagsOfEach(Head(items).subtasks)
       \o TagsOfTasksAndSubtasks(Tail(items))

\* allTags of src/App.tsx
allTagsFlat(items) == sort(ArrayFromSet(TagsOfTasksAndSubtasks(items)), CompareCodeUnits)

allTags(b, items) == IF b = "tree" THEN allTagsTree(items) ELSE allTagsFlat(items)

----------------------------------------------------------------------------
(* The state machine *)

\* the last event: the handler that ran, whether it got to setTasks, and
\* whether the id it took from generateId was in no node of the tree
Event(name, applied, fresh) == [name |-> name, applied |-> applied, fresh |-> fresh]

Op(name, applied) == Event(name, applied, TRUE)

\* the task input as the App mounts it
EmptyInput ==
  /\ inputValue = <<>>
  /\ selectionStart = 0
  /\ suggestedTags = <<>>
  /\ selectedTagIndex = 0

Init ==
  \E b \in Builds, saved \in PersistedBlobs :
    /\ build = b
    /\ tasks = Startup(b, saved).tasks
    /\ crashed = Startup(b, saved).crashed
    /\ storage = Startup(b, saved).storage
    /\ now = StartTime
    /\ lastOp = Op("load", TRUE)
    /\ steps = 0
    /\ EmptyInput
    /\ quotaExceeded = FALSE
    /\ selectedTags = <<>>

\* one more event of the session, of at most MaxSteps
Step ==
  /\ steps < MaxSteps
  /\ steps' = steps + 1

\* the page is loaded again, with either App; the persistence effect of the
\* mount throws when the storage refuses the write
Restart(b) ==
  /\ Step
  /\ build' = b
  /\ tasks' = Startup(b, storage).tasks
  /\ crashed' = (Startup(b, storage).crashed \/ quotaExceeded)
  /\ storage' = IF quotaExceeded THEN storage ELSE Startup(b, storage).storage
  /\ lastOp' = Op("load", TRUE)
  /\ inputValue' = <<>>
  /\ selectionStart' = 0
  /\ suggestedTags' = <<>>
  /\ selectedTagIndex' = 0
  /\ selectedTags' = <<>>
  /\ UNCHANGED <<now, quotaExceeded>>

\* time passes
Tick ==
  /\ Step
  /\ now < MaxTime
  /\ now' = now + 1
  /\ UNCHANGED <<build, tasks, storage, crashed, lastOp, inputVars, quotaExceeded,
                 selectedTags>>

\* setTasks with a persistence effect that saves the tasks of the render
\* before
SetTasksSavesPrevious(next, op, fresh) ==
  /\ Step
  /\ tasks' = next
  /\ storage' = IF quotaExceeded THEN storage ELSE JSONstringify(tasks)
  /\ crashed' = quotaExceeded
  /\ lastOp' = Event(op, TRUE, fresh)
  /\ UNCHANGED <<build, now, quotaExceeded, selectedTags>>

\* setTasks followed by the persistence effect, which runs after the render
\* of the new tasks; a setItem that throws makes the effect throw
SetTasksWithId(next, op, fresh) ==
  /\ Step
  /\ tasks' = next
  /\ storage' = IF quotaExceeded THEN storage ELSE JSONstringify(next)
  /\ crashed' = quotaExceeded
  /\ lastOp' = Event(op, TRUE, fresh)
  /\ UNCHANGED <<build, now, quotaExceeded, selectedTags>>

\* ... by a handler of a TaskItem, which leaves the task input alone
SetTasksOfItem(next, op, fresh) ==
  /\ SetTasksWithId(next, op, fresh)
  /\ UNCHANGED inputVars

SetTasks(next, op) == SetTasksOfItem(next, op, TRUE)

\* a handler that returns before it calls setTasks
Rejected(op) ==
  /\ Step
  /\ lastOp' = Op(op, FALSE)
  /\ UNCHANGED <<build, tasks, storage, now, crashed, inputVars, quotaExceeded,
                 selectedTags>>

\* the root tasks that pass the tags selected on the filter
Visible == SelectSeq(tasks, LAMBDA task : TagCriterion(build, task, selectedTags))

\* the nodes a TaskItem is rendered for
Rendered ==
  IF crashed THEN <<>>
  ELSE IF build = "tree" THEN Flatten(Visible)
  ELSE Visible

RenderedIds == { Rendered[i].id : i \in 1..Len(Rendered) }

\* the form is submitted while the task input holds val
addTask(val, r) ==
  /\ ~crashed
  /\ CountNodes(tasks) < MaxNodes
  /\ IF trim(val) = <<>>
     THEN Rejected("addTask")
     ELSE /\ SetTasksWithId(
               <<NewTask(generateId(r, now), parseTaskInput(val), now)>> \o tasks,
               "addTask", generateId(r, now) \notin IdsOf(tasks))
          /\ inputValue' = <<>>
          /\ selectionStart' = 0
          /\ suggestedTags' = <<>>
          /\ UNCHANGED selectedTagIndex

handleUpdate(id, localDescription) ==
  /\ ~crashed /\ build = "tree"
  /\ \E i \in 1..Len(Rendered) :
       /\ Rendered[i].id = id
       /\ Has(Rendered[i], "description") => Rendered[i].description # localDescription
  /\ SetTasks(updateInTree(tasks, id, [description |-> localDescription], now),
              "handleUpdate")

handleToggle(id) ==
  /\ ~crashed /\ build = "tree"
  /\ id \in RenderedIds
  /\ SetTasks(toggleInTree(tasks, id, now), "handleToggle")

handleDelete(id, confirmed) ==
  /\ ~crashed /\ build = "tree"
  /\ id \in RenderedIds
  /\ IF confirmed
     THEN SetTasks(deleteFromTree(tasks, id), "handleDelete")
     ELSE Rejected("handleDelete")

handleAddSubtask(parentId, subtaskInput, r) ==
  /\ ~crashed /\ build = "tree"
  /\ CountNodes(tasks) < MaxNodes
  /\ parentId \in RenderedIds
  /\ IF trim(subtaskInput) = <<>>
     THEN Rejected("handleAddSubtask")
     ELSE LET parsed == parseTaskInput(subtaskInput) IN
          SetTasksOfItem(
            addToTree(tasks, parentId,
              NewSubtask(generateId(r, now), parentId, parsed.title, parsed.tags, now)),
            "handleAddSubtask", generateId(r, now) \notin IdsOf(tasks))

\* the handlers src/App.tsx passes to the TaskItem of a root task

onUpdate(id, localDescription) ==
  /\ ~crashed /\ build = "flat"
  /\ \E i \in 1..Len(tasks) :
       /\ TagCriterion(build, tasks[i], selectedTags)
       /\ tasks[i].id = id
       /\ Has(tasks[i], "description") => tasks[i].description # localDescription
  /\ SetTasks(updateTask(tasks, id, [description |-> localDescription], now), "onUpdate")

onToggle(id) ==
  /\ ~crashed /\ build = "flat"
  /\ id \in RenderedIds
  /\ SetTasks(toggleTask(tasks, id, now), "onToggle")

onDelete(id, confirmed) ==
  /\ ~crashed /\ build = "flat"
  /\ id \in RenderedIds
  /\ IF confirmed
     THEN SetTasks(deleteTask(tasks, id), "onDelete")
     ELSE Rejected("onDelete")

onAddSubtask(taskId, subtaskInput, r) ==
  /\ ~crashed /\ build = "flat"
  /\ CountNodes(tasks) < MaxNodes
  /\ taskId \in RenderedIds
  /\ IF trim(subtaskInput) = <<>>
     THEN Rejected("onAddSubtask")
     ELSE LET parsed == parseTaskInput(subtaskInput) IN
          SetTasksOfItem(
            addSubtask(tasks, taskId, parsed.title, parsed.tags, generateId(r, now), now),
            "onAddSubtask", generateId(r, now) \notin IdsOf(tasks))

\* ... and to the SubtaskItem of subtask k of root task i

onUpdateSubtask(i, k, localDescription) ==
  /\ ~crashed /\ build = "flat"
  /\ i \in 1..Len(tasks) /\ k \in 1..Len(tasks[i].subtasks)
  /\ TagCriterion(build, tasks[i], selectedTags)
  /\ LET st == tasks[i].subtasks[k] IN
       /\ Has(st, "description") => st.description # localDescription
       /\ SetTasks(updateSubtask(tasks, tasks[i].id, st.id,
                                 [description |-> localDescription], now),
                   "onUpdateSubtask")

onToggleSubtask(i, k) ==
  /\ ~crashed /\ build = "flat"
  /\ i \in 1..Len(tasks) /\ k \in 1..Len(tasks[i].subtasks)
  /\ TagCriterion(build, tasks[i], selectedTags)
  /\ SetTasks(toggleSubtask(tasks, tasks[i].id, tasks[i].subtasks[k].id, now),
              "onToggleSubtask")

onDeleteSubtask(i, k) ==
  /\ ~crashed /\ build = "flat"
  /\ i \in 1..Len(tasks) /\ k \in 1..Len(tasks[i].subtasks)
  /\ TagCriterion(build, tasks[i], selectedTags)
  /\ SetTasks(deleteSubtask(tasks, tasks[i].id, tasks[i].subtasks[k].id),
              "onDeleteSubtask")

DescriptionInputs == Descriptions

Next ==
  \/ \E b \in Builds : Restart(b)
  \/ Tick
  \/ \E input \in RawInputs, r \in Rands : addTask(input, r)
  \/ \E id \in RenderedIds, d \in DescriptionInputs : handleUpdate(id, d)
  \/ \E id \in RenderedIds : handleToggle(id)
  \/ \E id \in RenderedIds, confirmed \in BOOLEAN : handleDelete(id, confirmed)
  \/ \E id \in RenderedIds, input \in RawInputs, r \in Rands : handleAddSubtask(id, input, r)
  \/ \E id \in RenderedIds, d \in DescriptionInputs : onUpdate(id, d)
  \/ \E id \in RenderedIds : onToggle(id)
  \/ \E id \in RenderedIds, confirmed \in BOOLEAN : onDelete(id, confirmed)
  \/ \E id \in RenderedIds, input \in RawInputs, r \in Rands : onAddSubtask(id, input, r)
  \/ \E i \in 1..Len(tasks), k \in 1..MaxNodes, d \in DescriptionInputs : onUpdateSubtask(i, k, d)
  \/ \E i \in 1..Len(tasks), k \in 1..MaxNodes : onToggleSubtask(i, k)
  \/ \E i \in 1..Len(tasks), k \in 1..MaxNodes : onDeleteSubtask(i, k)

Spec == Init /\ [][Next]_vars

\* the tree an earlier session has built at the times 0 and 1: two tasks,
\* the later one tagged, and completed at time 1
EarlierRoots ==
  LET first  == NewTask(generateId(1, 0), parseTaskInput(<<"a">>), 0)
      second == NewTask(generateId(1, 1), parseTaskInput(<<"#", "w">>), 1)
  IN  toggleInTree(<<second, first>>, second.id, 1)

\* a session that finds these two tasks in the storage
ViewInit ==
  \E b \in Builds :
    /\ build = b
    /\ tasks = Startup(b, JSONstringify(EarlierRoots)).tasks
    /\ crashed = Startup(b, JSONstringify(EarlierRoots)).crashed
    /\ storage = Startup(b, JSONstringify(EarlierRoots)).storage
    /\ now = StartTime
    /\ lastOp = Op("load", TRUE)
    /\ steps = 0
    /\ EmptyInput
    /\ quotaExceeded = FALSE
    /\ selectedTags = <<>>

ViewSpec == ViewInit /\ [][Next]_vars

\* the storage reaches its quota: from now on it refuses every write
StorageFills ==
  /\ Step
  /\ ~quotaExceeded
  /\ quotaExceeded' = TRUE
  /\ UNCHANGED <<build, tasks, storage, now, crashed, lastOp, inputVars, selectedTags>>

QuotaNext ==
  \/ Next
  \/ StorageFills

\* a session in which the storage can reach its quota
QuotaSpec == Init /\ [][QuotaNext]_vars

\* an event of the filter panel: tasks and storage stay as they are
FilterEvent(op) ==
  /\ ~crashed
  /\ Step
  /\ lastOp' = Op(op, TRUE)
  /\ UNCHANGED <<build, tasks, storage, now, crashed, inputVars, quotaExceeded>>

\* a click on the badge of a tag; the panel has a badge for each of allTags
toggleTagSelection(tag) ==
  /\ FilterEvent("toggleTagSelection")
  /\ Includes(allTags(build, tasks), tag)
  /\ selectedTags' = IF Includes(selectedTags, tag)
                     THEN SelectSeq(selectedTags, LAMBDA t : t # tag)
                     ELSE Append(selectedTags, tag)

\* a click on 'Clear filters', which is there while a tag is selected
clearFilters ==
  /\ FilterEvent("clearFilters")
  /\ Len(selectedTags) > 0
  /\ selectedTags' = <<>>

\* the tags of the model
Tags ==
  UNION { { parseTaskInput(val).tags[k] : k \in 1..Len(parseTaskInput(val).tags) } :
          val \in RawInputs }

FilterNext ==
  \/ Next
  \/ \E tag \in Tags : toggleTagSelection(tag)
  \/ clearFilters

\* a session in which the user selects tags on the filter
FilterSpec == Init /\ [][FilterNext]_vars

----------------------------------------------------------------------------
(* The task input: suggestions of tags and the insertion of a tag.        *)
(* Positions in a string are counted from 0, as in the source.             *)

\* val.lastIndexOf(c, fromIndex): a negative fromIndex counts as 0
lastIndexOf(val, c, fromIndex) ==
  LET from  == IF fromIndex < 0 THEN 0 ELSE fromIndex
      found == { k \in 0..(Len(val) - 1) : k <= from /\ val[k + 1] = c }
  IN  IF found = {} THEN -1 ELSE CHOOSE k \in found : \A j \in found : j <= k

\* val.substring(start, end): the arguments are clamped to the string and
\* swapped when start is greater than end
substring(val, start, end) ==
  LET clamp(n) == IF n < 0 THEN 0 ELSE IF n > Len(val) THEN Len(val) ELSE n
      lo == IF clamp(start) <= clamp(end) THEN clamp(start) ELSE clamp(end)
      hi == IF clamp(start) <= clamp(end) THEN clamp(end) ELSE clamp(start)
  IN  SubSeq(val, lo + 1, hi)

\* the start of the current word
WordStart(val, cursor) ==
  LET lastSpaceIndex == lastIndexOf(val, Space, cursor - 1)
  IN  IF lastSpaceIndex = -1 THEN 0 ELSE lastSpaceIndex + 1

\* the comparator that sorts the matches by localeCompare alone
CompareMatchesByName(a, b, search) == localeCompare(a, b)

\* the comparator of the matches: the tags that start with the search first
CompareMatches(a, b, search) ==
  LET aStarts == startsWith(toLowerCase(a), search)
      bStarts == startsWith(toLowerCase(b), search)
  IN  IF aStarts /\ ~bStarts THEN -1
      ELSE IF ~aStarts /\ bStarts THEN 1
      ELSE localeCompare(a, b)

\* matches of handleInputChange for the current word
Matches(known, currentWord) ==
  LET search == toLowerCase(substring(currentWord, 1, Len(currentWord)))
  IN  sort(SelectSeq(known, LAMBDA t : includes(toLowerCase(t), search)),
           LAMBDA a, b : CompareMatches(a, b, search))

\* all matches, not the first five
AllMatches(matches) == matches

\* matches.slice(0, 5)
TopMatches(matches) == SubSeq(matches, 1, IF Len(matches) < 5 THEN Len(matches) ELSE 5)

\* an event of the task input: tasks and storage stay as they are
InputEvent(op) ==
  /\ ~crashed
  /\ Step
  /\ lastOp' = Op(op, TRUE)
  /\ UNCHANGED <<build, tasks, storage, now, crashed, quotaExceeded, selectedTags>>

\* the user changes the text to val, which leaves the caret at cursor
handleInputChange(val, cursor) ==
  /\ InputEvent("handleInputChange")
  /\ inputValue' = val
  /\ selectionStart' = cursor
  /\ LET currentWord == substring(val, WordStart(val, cursor), cursor)
         matches     == Matches(allTags(build, tasks), currentWord)
     IN  IF startsWith(currentWord, <<Hash>>) /\ Len(currentWord) > 1
         THEN IF Len(matches) > 0
              THEN /\ suggestedTags' = TopMatches(matches)
                   /\ selectedTagIndex' = 0
              ELSE /\ suggestedTags' = <<>>
                   /\ UNCHANGED selectedTagIndex
         ELSE /\ suggestedTags' = <<>>
              /\ UNCHANGED selectedTagIndex

\* the user moves the caret of the task input
moveCaret(cursor) ==
  /\ InputEvent("moveCaret")
  /\ cursor # selectionStart
  /\ selectionStart' = cursor
  /\ UNCHANGED <<inputValue, suggestedTags, selectedTagIndex>>

\* insertTag, with the selection it sets from its timer
insertTag(tag) ==
  LET val    == inputValue
      cursor == selectionStart
      start  == WordStart(val, cursor)
      before == substring(val, 0, start)
      after  == substring(val, cursor, Len(val))
      spacer == IF startsWith(after, <<Space>>) THEN <<>> ELSE <<Space>>
  IN  /\ inputValue' = before \o <<Hash>> \o tag \o spacer \o after
      /\ suggestedTags' = <<>>
      /\ selectionStart' = Len(before) + 1 + Len(tag) + Len(spacer)
      /\ UNCHANGED selectedTagIndex

\* the keys handleKeyDown looks at
Keys == { "ArrowDown", "ArrowUp", "Tab", "Enter", "Escape" }

handleKeyDown(key) ==
  /\ InputEvent(IF Len(suggestedTags) > 0 /\ key \in { "Tab", "Enter" }
                THEN "insertTag" ELSE "handleKeyDown")
  /\ IF Len(suggestedTags) > 0
     THEN CASE key = "ArrowDown" ->
                 /\ selectedTagIndex' = (selectedTagIndex + 1) % Len(suggestedTags)
                 /\ UNCHANGED <<inputValue, selectionStart, suggestedTags>>
            [] key = "ArrowUp" ->
                 /\ selectedTagIndex' =
                      (selectedTagIndex - 1 + Len(suggestedTags)) % Len(suggestedTags)
                 /\ UNCHANGED <<inputValue, selectionStart, suggestedTags>>
            [] key \in { "Tab", "Enter" } ->
                 insertTag(suggestedTags[selectedTagIndex + 1])
            [] key = "Escape" ->
                 /\ suggestedTags' = <<>>
                 /\ UNCHANGED <<inputValue, selectionStart, selectedTagIndex>>
     ELSE UNCHANGED inputVars

\* the user presses the mouse button on suggestion k
onMouseDown(k) ==
  /\ InputEvent("insertTag")
  /\ k \in 1..Len(suggestedTags)
  /\ insertTag(suggestedTags[k])

\* tags and texts of the sessions at the task input
Urgent == << "u", "r", "g", "e", "n", "t" >>
Urgently == Urgent \o << "l", "y" >>
Surge == << "s", "u", "r", "g", "e" >>

\* the text that gives a task the tags of tagList
Tagged(title, tagList) ==
  LET text[n \in 0..Len(tagList)] ==
        IF n = 0 THEN title ELSE text[n - 1] \o <<Space, Hash>> \o tagList[n]
  IN  text[Len(tagList)]

\* a task an earlier session has added with the tags surge, urgently, urgent
UrgentTasks ==
  << NewTask(generateId(1, 0),
             parseTaskInput(Tagged(<<"a">>, <<Surge, Urgently, Urgent>>)), 0) >>

\* a task an earlier session has added with seven tags that hold a u
ManyTagTasks ==
  << NewTask(generateId(1, 0),
             parseTaskInput(Tagged(<<"a">>,
               << <<"s", "u">>, <<"u">>, <<"U", "r">>, <<"u", "r">>, <<"n", "u">>,
                  <<"u", "-">>, <<"_", "u">> >>)), 0) >>

\* the texts the user gives the task input
TypedTexts ==
  { << "#", "u", "r" >>, << "#", "U" >>, << " ", "#", "u" >>, << "#", "u", " ", "a" >>,
    << "a", "#", "u" >>, << "a", " ", "#", "w", " ", "#", "w" >>,
    << "#", "a", "-", "w" >>, << " " >>, << "#", " ", "a" >> }

\* a session at the task input, over one of the two tagged tasks
InputInit ==
  \E b \in Builds, earlier \in { UrgentTasks, ManyTagTasks } :
    /\ build = b
    /\ tasks = Startup(b, JSONstringify(earlier)).tasks
    /\ crashed = Startup(b, JSONstringify(earlier)).crashed
    /\ storage = Startup(b, JSONstringify(earlier)).storage
    /\ now = StartTime
    /\ lastOp = Op("load", TRUE)
    /\ steps = 0
    /\ EmptyInput
    /\ quotaExceeded = FALSE
    /\ selectedTags = <<>>

InputNext ==
  \/ \E val \in TypedTexts : \E cursor \in 0..Len(val) : handleInputChange(val, cursor)
  \/ \E cursor \in 0..Len(inputValue) : moveCaret(cursor)
  \/ \E key \in Keys : handleKeyDown(key)
  \/ \E k \in 1..Len(suggestedTags) : onMouseDown(k)
  \/ \E r \in Rands : addTask(inputValue, r)

InputSpec == InputInit /\ [][InputNext]_vars

----------------------------------------------------------------------------
(* Vocabulary of the properties *)

\* the first node with the given id in a list of nodes
FindIn(ns, id) ==
  ns[CHOOSE i \in 1..Len(ns) :
       /\ IdIs(ns[i], id)
       /\ \A j \in 1..(i - 1) : ~IdIs(ns[j], id)]

\* the first node with the given id, in the order of Flatten
Find(items, id) == FindIn(Flatten(items), id)

\* the properties of a node other than its subtasks
Own(item) == [f \in DOMAIN item \ {"subtasks"} |-> item[f]]

ChildIds(item) == [k \in 1..Len(SubtasksOf(item)) |-> SubtasksOf(item)[k].id]

\* some node has a subtask
Nested(items) == \E i \in 1..Len(Flatten(items)) : HasSubtasks(Flatten(items)[i])

\* some node has a subtask that has a subtask
DeeplyNested(items) ==
  \E i \in 1..Len(Flatten(items)) :
    HasSubtasks(Flatten(items)[i]) /\ Nested(Flatten(items)[i].subtasks)

AbsentIds == AllIds \ IdsOf(tasks)

\* the ids generateId can return now that are in no node of the tree
FreshIds == { generateId(r, now) : r \in Rands } \ IdsOf(tasks)

----------------------------------------------------------------------------
(* C1: for an id that occurs in no node of the tree, toggleInTree,         *)
(* updateInTree, deleteFromTree and addToTree each return the input tree:  *)
(* no node is added, removed, reordered or changed.                        *)
NoOpOnAbsentId ==
  \A id \in AbsentIds :
    /\ toggleInTree(tasks, id, now) = tasks
    /\ \A d \in DescriptionInputs :
         updateInTree(tasks, id, [description |-> d], now) = tasks
    /\ deleteFromTree(tasks, id) = tasks
    /\ addToTree(tasks, id, NewSubtask(generateId(1, now), id, <<"a">>, <<>>, now)) = tasks

\* a delete has just made an id stale in a tree that still has nested nodes
NoOpOnAbsentIdWitness ==
  /\ lastOp = Op("handleDelete", TRUE)
  /\ Nested(tasks)
  /\ AbsentIds # {}

----------------------------------------------------------------------------
(* C2: in every state reached from an empty tree by adding tasks and       *)
(* subtasks, toggling, updating and deleting, every node at every depth    *)
(* has completedAt defined if and only if isCompleted is true.             *)
CompletedAtIffCompleted ==
  ~crashed =>
    \A i \in 1..Len(Flatten(tasks)) :
      LET node == Flatten(tasks)[i] IN
      node.isCompleted <=> (CompletedAtOf(node) # Undefined)

\* a subtask was completed and uncompleted again: its completedAt is cleared
CompletedAtIffCompletedWitness ==
  /\ ~crashed
  /\ \E i \in 1..Len(tasks) : \E k \in 1..Len(tasks[i].subtasks) :
       LET st == tasks[i].subtasks[k] IN
       /\ ~st.isCompleted
       /\ Has(st, "completedAt") /\ st.completedAt = Undefined

----------------------------------------------------------------------------
(* C3: toggling a node twice in a row.                                     *)

ToggledTwice(id, t1, t2) == toggleInTree(toggleInTree(tasks, id, t1), id, t2)

\* the clock readings of two successive toggles, the first of them now
TwoReadings == { <<now, t>> : t \in now..MaxTime }

\* C3 as stated: after two toggles the node's isCompleted and completedAt
\* equal their values before the first toggle, whether the node starts
\* incomplete or completed.
ToggleTwiceRestoresCompletion ==
  ~crashed =>
    \A id \in IdsOf(tasks), p \in TwoReadings :
      LET before == Find(tasks, id)
          after  == Find(ToggledTwice(id, p[1], p[2]), id)
      IN  /\ after.isCompleted = before.isCompleted
          /\ CompletedAtOf(after) = CompletedAtOf(before)

\* C3 amended: after two toggles isCompleted equals its value before the
\* first toggle; completedAt is undefined again when the node started
\* incomplete, and is the time of the second toggle when it started completed.
ToggleTwiceRestoresIsCompleted ==
  ~crashed =>
    \A id \in IdsOf(tasks) :
      LET before == Find(tasks, id) IN
      \A p \in TwoReadings :
        LET after == Find(ToggledTwice(id, p[1], p[2]), id)
        IN  /\ after.isCompleted = before.isCompleted
            /\ CompletedAtOf(after) = IF before.isCompleted THEN p[2] ELSE Undefined

\* a toggle has completed a node some time ago, next to an incomplete node
ToggleTwiceWitness ==
  /\ ~crashed
  /\ lastOp = Op("handleToggle", TRUE)
  /\ \E i, j \in 1..Len(Flatten(tasks)) :
       /\ Flatten(tasks)[i].isCompleted
       /\ Flatten(tasks)[i].completedAt < now
       /\ ~Flatten(tasks)[j].isCompleted

----------------------------------------------------------------------------
(* C4: in a tree with pairwise distinct ids, deleteFromTree with the id of *)
(* a node that has N descendants returns a tree with exactly N+1 nodes     *)
(* fewer, with none of the ids of the node and its descendants, and with   *)
(* every other node still present.                                         *)
DeleteRemovesSubtree ==
  (~crashed /\ DistinctIds(tasks)) =>
    \A id \in IdsOf(tasks) :
      LET before == Flatten(tasks)
          node   == FindIn(before, id)
          res    == deleteFromTree(tasks, id)
          after  == Flatten(res)
      IN  /\ Len(after) = Len(before) - (CountNodes(SubtasksOf(node)) + 1)
          /\ IdsOf(res) = IdsOf(tasks) \ IdsOf(<<node>>)
          /\ DistinctIds(res)
          /\ \A j \in IdsOf(res) : Own(FindIn(after, j)) = Own(FindIn(before, j))

\* the first event of the session has deleted the middle node of the chain
\* of three found in the storage: the root is what is left
DeleteRemovesSubtreeWitness ==
  /\ ~crashed /\ build = "tree"
  /\ steps = 1 /\ lastOp = Op("handleDelete", TRUE)
  /\ CountNodes(tasks) = 1

----------------------------------------------------------------------------
(* C5: the ids of the tree.                                                *)

\* C5 as stated: after any sequence of add-root-task and add-subtask
\* operations, possibly interleaved with toggle, update and delete, all ids
\* in the tree, at all depths, are pairwise distinct.
IdsPairwiseDistinct == DistinctIds(tasks)

\* C5 amended: the ids of the tree stay pairwise distinct through every
\* operation in which generateId returns an id that is in no node of the tree
\* (generateId draws from Math.random and the clock: it can repeat an id).
IdsDistinctWhileFresh ==
  [][(DistinctIds(tasks) /\ lastOp'.fresh) => DistinctIds(tasks')]_vars

\* a subtask was added under a subtask with a fresh id
IdsDistinctWhileFreshWitness ==
  /\ ~crashed
  /\ lastOp = Event("handleAddSubtask", TRUE, TRUE)
  /\ DeeplyNested(tasks)
  /\ DistinctIds(tasks)

----------------------------------------------------------------------------
(* C6: in every reachable state, also right after loading persisted data   *)
(* whose nodes omit subtasks and right after adding a subtask, every node  *)
(* at every depth has a subtasks property that is a list.                  *)
SubtasksNeverAbsent ==
  ~crashed =>
    \A i \in 1..Len(Flatten(tasks)) : Has(Flatten(tasks)[i], "subtasks")

----------------------------------------------------------------------------
(* C7: loading a blob that is malformed (text that is not JSON, or JSON    *)
(* that is not a list of node objects) gives an empty tree as the initial  *)
(* state and raises no error.                                              *)

MalformedBlobs ==
  { Blob("text", <<>>), Blob("null", <<>>), Blob("array", <<EmptyObject>>) }

MalformedLoadsAsEmpty ==
  \A saved \in MalformedBlobs :
    /\ Startup(build, saved).tasks = <<>>
    /\ ~Startup(build, saved).crashed

----------------------------------------------------------------------------
(* C8: for a tree in which every node has a subtasks list, saving the tree *)
(* and loading it through sanitize gives a tree with the same nodes in the *)
(* same order with the same values of their properties.                    *)

WellFormed(items) ==
  \A i \in 1..Len(Flatten(items)) : Has(Flatten(items)[i], "subtasks")

\* the same value of property f; a completedAt that is undefined and one
\* that is absent are the same value
SameValue(a, b, f) ==
  IF f = "completedAt" THEN CompletedAtOf(a) = CompletedAtOf(b)
  ELSE Has(a, f) /\ Has(b, f) /\ a[f] = b[f]

RECURSIVE DeepEqual(_, _)
DeepEqual(xs, ys) ==
  /\ Len(xs) = Len(ys)
  /\ \A i \in 1..Len(xs) :
       /\ \A f \in (DOMAIN xs[i] \cup DOMAIN ys[i]) \ {"subtasks"} :
            SameValue(xs[i], ys[i], f)
       /\ Has(xs[i], "subtasks") = Has(ys[i], "subtasks")
       /\ DeepEqual(SubtasksOf(xs[i]), SubtasksOf(ys[i]))

SaveAndLoadRestores ==
  (~crashed /\ WellFormed(tasks)) =>
    /\ ~LoadTree(JSONstringify(tasks)).threw
    /\ DeepEqual(LoadTree(JSONstringify(tasks)).tasks, tasks)

\* the tree App has loaded what this session saved: nested nodes, one of
\* them changed in this session
SaveAndLoadRestoresWitness ==
  /\ ~crashed /\ build = "tree"
  /\ steps > 0 /\ lastOp = Op("load", TRUE)
  /\ DeeplyNested(tasks)
  /\ \E i \in 1..Len(Flatten(tasks)) : Flatten(tasks)[i].updatedAt >= StartTime

----------------------------------------------------------------------------
(* C9: in a tree with distinct ids, addToTree with the id of a node of any *)
(* depth returns a tree in which the new node is the last subtask of that  *)
(* node, the earlier subtasks of the node keep their order, the number of  *)
(* nodes has grown by one and every other node is unchanged.               *)
AddToTreeAppends ==
  (~crashed /\ DistinctIds(tasks)) =>
    \A parentId \in IdsOf(tasks), id \in FreshIds :
      LET new    == NewSubtask(id, parentId, <<"a">>, <<>>, now)
          before == Flatten(tasks)
          after  == Flatten(addToTree(tasks, parentId, new))
      IN  /\ Len(after) = Len(before) + 1
          /\ SubtasksOf(FindIn(after, parentId))
               = Append(SubtasksOf(FindIn(before, parentId)), new)
          /\ FindIn(after, id) = new
          /\ \A j \in IdsOf(tasks) :
               /\ Own(FindIn(after, j)) = Own(FindIn(before, j))
               /\ j # parentId =>
                    ChildIds(FindIn(after, j)) = ChildIds(FindIn(before, j))

\* a second subtask was added to a node
AddToTreeAppendsWitness ==
  /\ ~crashed /\ DistinctIds(tasks)
  /\ lastOp = Event("handleAddSubtask", TRUE, TRUE)
  /\ \E i \in 1..Len(Flatten(tasks)) : Len(Flatten(tasks)[i].subtasks) = 2

----------------------------------------------------------------------------
(* C10: the tag criterion of the filter passes a root task if and only if  *)
(* some selected tag is among the tags of the task or of a subtask of it   *)
(* at any depth; with no tag selected it passes every task.                *)
TagCriterionSearchesSubtree ==
  ~crashed =>
    \A i \in 1..Len(tasks), selected \in TagSelections :
      TagCriterion(build, tasks[i], selected)
        <=> \/ selected = <<>>
            \/ \E n \in 1..Len(Flatten(<<tasks[i]>>)) :
                 SomeSelected(selected, Flatten(<<tasks[i]>>)[n].tags)

----------------------------------------------------------------------------
(* The settings of the filters the properties of the view are checked on *)
FilterSettings ==
  [ status : StatusFilters, date : DateFilters,
    search : { <<>>, <<"A">> }, tags : { <<>>, <<(<<"w">>)>> } ]

\* the settings of the status and date filters alone
StatusAndDateSettings == { f \in FilterSettings : f.search = <<>> /\ f.tags = <<>> }

Filtered(f) == filteredTasks(build, tasks, f.status, f.search, f.date, f.tags)

StatusPasses(task, status) ==
  /\ status = "active" => ~task.isCompleted
  /\ status = "completed" => task.isCompleted

DatePasses(task, date) ==
  date # NoDate =>
    /\ task.isCompleted
    /\ Has(task, "completedAt")
    /\ DateOf(task.completedAt) = date

SearchPasses(task, search) ==
  search # <<>> => includes(toLowerCase(task.title), toLowerCase(search))

(* C11: a root task is in the filtered view if and only if all criteria    *)
(* pass together: the status 'active' excludes the completed tasks,        *)
(* 'completed' the incomplete ones, 'all' none; a completion date that is  *)
(* set requires the task to be completed and the calendar date of its      *)
(* completedAt to equal the filter date.                                   *)
FilteredIffAllCriteriaPass ==
  ~crashed =>
    \A f \in FilterSettings :
      Filtered(f) = SelectSeq(tasks, LAMBDA task :
        /\ StatusPasses(task, f.status)
        /\ DatePasses(task, f.date)
        /\ SearchPasses(task, f.search)
        /\ TagCriterion(build, task, f.tags))

\* three root tasks, two of them completed on different dates: each date
\* filter lets one task through
FilteredIffAllCriteriaPassWitness ==
  /\ ~crashed /\ Len(tasks) = 3
  /\ \E i \in 1..3 : ~tasks[i].isCompleted
  /\ \E d1, d2 \in DateFilters \ {NoDate} :
       /\ d1 # d2
       /\ Len(filteredTasks(build, tasks, "all", <<>>, d1, <<>>)) = 1
       /\ Len(filteredTasks(build, tasks, "completed", <<>>, d2, <<>>)) = 1
       /\ filteredTasks(build, tasks, "active", <<>>, d2, <<>>) = <<>>

----------------------------------------------------------------------------
Sorted(f) == sortedTasks(Filtered(f))

Occurrences(list, x) == Cardinality({ i \in 1..Len(list) : list[i] = x })

(* C12: the sorted view is a permutation of the filtered list in which     *)
(* every incomplete task precedes every completed task, completedAt does   *)
(* not increase along the completed tasks (a missing completedAt counts as *)
(* the earliest) and createdAt does not increase along the incomplete ones.*)
SortedViewIsOrdered ==
  ~crashed =>
    \A f \in StatusAndDateSettings :
      LET filtered == Filtered(f)
          sorted   == sortedTasks(filtered)
      IN  /\ Len(sorted) = Len(filtered)
          /\ \A i \in 1..Len(filtered) :
               Occurrences(sorted, filtered[i]) = Occurrences(filtered, filtered[i])
          /\ \A i, j \in 1..Len(sorted) :
               i < j =>
                 /\ ~(sorted[i].isCompleted /\ ~sorted[j].isCompleted)
                 /\ (sorted[i].isCompleted /\ sorted[j].isCompleted) =>
                      CompletedAtOf(sorted[i]) >= CompletedAtOf(sorted[j])
                 /\ (~sorted[i].isCompleted /\ ~sorted[j].isCompleted) =>
                      sorted[i].createdAt >= sorted[j].createdAt

\* three root tasks, completed and incomplete ones, that the sort has put in
\* another order than the list has them in: the task completed last is not
\* the first completed task of the list
SortedViewIsOrderedWitness ==
  /\ ~crashed /\ Len(tasks) = 3
  /\ \E i, j \in 1..3 :
       /\ i < j
       /\ tasks[i].isCompleted /\ tasks[j].isCompleted
       /\ tasks[i].completedAt < tasks[j].completedAt
  /\ \E i \in 1..3 : ~tasks[i].isCompleted
  /\ sortedTasks(filteredTasks(build, tasks, "all", <<>>, NoDate, <<>>)) # tasks

----------------------------------------------------------------------------
Grouped(f) == groupedCompletedTasks(Sorted(f), f.status, f.date)

Shown(f) == MainZone(build, tasks, f.status, f.search, f.date, f.tags)

(* C13: the groups are produced if and only if the status filter is        *)
(* 'completed' or a completion date is set; then each group holds exactly  *)
(* the tasks of the sorted view whose completedAt falls on the date of the *)
(* group, in the order of the sorted view, a task without completedAt is   *)
(* in no group, and the groups are shown by descending date.               *)
GroupsByCompletionDate ==
  ~crashed =>
    \A f \in StatusAndDateSettings :
      LET sorted  == Sorted(f)
          grouped == groupedCompletedTasks(sorted, f.status, f.date)
          groups  == grouped.groups
          shown   == Shown(f)
          dated   == { i \in 1..Len(sorted) : Has(sorted[i], "completedAt") }
      IN  /\ grouped.null <=> ~(f.status = "completed" \/ f.date # NoDate)
          /\ ~grouped.null =>
               /\ { groups[g].date : g \in 1..Len(groups) }
                    = { DateOf(sorted[i].completedAt) : i \in dated }
               /\ \A g, h \in 1..Len(groups) : groups[g].date = groups[h].date => g = h
               /\ \A g \in 1..Len(groups) :
                    groups[g].tasks = SelectSeq(sorted, LAMBDA task :
                      /\ Has(task, "completedAt")
                      /\ DateOf(task.completedAt) = groups[g].date)
               /\ shown.shows = (IF sorted = <<>> THEN "empty" ELSE "groups")
               /\ shown.shows = "groups" =>
                    /\ Len(shown.groups) = Len(groups)
                    /\ \A g \in 1..Len(groups) : Occurrences(shown.groups, groups[g]) = 1
                    /\ \A g, h \in 1..Len(groups) :
                         g < h => shown.groups[g].date > shown.groups[h].date
          /\ grouped.null => shown.shows \in { "empty", "tasks" }

\* the view of the completed tasks shows two groups, one of two tasks
GroupsByCompletionDateWitness ==
  /\ ~crashed
  /\ LET f == [status |-> "completed", date |-> NoDate, search |-> <<>>, tags |-> <<>>]
     IN  /\ Shown(f).shows = "groups"
         /\ Len(Shown(f).groups) = 2
         /\ \E g \in 1..2 : Len(Shown(f).groups[g].tasks) = 2

----------------------------------------------------------------------------
TagsIn(items) ==
  UNION { { Flatten(items)[i].tags[k] : k \in 1..Len(Flatten(items)[i].tags) } :
          i \in 1..Len(Flatten(items)) }

(* C14: the tag index is exactly the set of the tags of the nodes of the   *)
(* tree, at every depth, compared as case-sensitive strings.               *)
TagIndexIsTagsOfTree ==
  ~crashed =>
    { allTags(build, tasks)[k] : k \in 1..Len(allTags(build, tasks)) } = TagsIn(tasks)

----------------------------------------------------------------------------
(* Vocabulary of the properties of parseTaskInput *)

\* the positions of the '#' that a tag character follows
TagStarts(s) ==
  { i \in 1..(Len(s) - 1) : s[i] = Hash /\ s[i + 1] \in TagChars }

\* the last position of the tag that starts at i: the tag characters after
\* the '#' as far as they go
TagEnd(s, i) ==
  CHOOSE e \in (i + 1)..Len(s) :
    /\ \A j \in (i + 1)..e : s[j] \in TagChars
    /\ e < Len(s) => s[e + 1] \notin TagChars

InTag(s, j) == \E i \in TagStarts(s) : i <= j /\ j <= TagEnd(s, i)

\* the elements of a set of numbers in ascending order
RECURSIVE Ascending(_)
Ascending(set) ==
  IF set = {} THEN <<>>
  ELSE LET least == CHOOSE x \in set : \A y \in set : x <= y
       IN  <<least>> \o Ascending(set \ {least})

TagBodies(s) ==
  [k \in 1..Cardinality(TagStarts(s)) |->
     SubSeq(s, Ascending(TagStarts(s))[k] + 1, TagEnd(s, Ascending(TagStarts(s))[k]))]

\* s without its tags, from its first to its last character that is no space
TitleLeft(s) ==
  LET rest  == Ascending({ j \in 1..Len(s) : ~InTag(s, j) })
      solid == { k \in 1..Len(rest) : s[rest[k]] # Space }
  IN  IF solid = {} THEN <<>>
      ELSE LET first == CHOOSE k \in solid : \A m \in solid : k <= m
               last  == CHOOSE k \in solid : \A m \in solid : m <= k
           IN  [k \in 1..(last - first + 1) |-> s[rest[first + k - 1]]]

ParsedAsStated(s, parsed) ==
  /\ parsed.tags = TagBodies(s)
  /\ parsed.title = IF TitleLeft(s) = <<>> THEN s ELSE TitleLeft(s)

(* C15: parseTaskInput returns as tags the bodies of all matches of '#'    *)
(* followed by one or more word characters or hyphens, in the order of     *)
(* their appearance, duplicates kept, and as title the input without those *)
(* matches, trimmed; when that is empty the title is the raw input.  This  *)
(* holds of every text the task input comes to hold and of the task that   *)
(* addTask makes of it.                                                    *)
ParseTaskInputAsStated ==
  [][/\ ParsedAsStated(inputValue', parseTaskInput(inputValue'))
     /\ lastOp' = Op("addTask", TRUE) =>
          ParsedAsStated(inputValue, [title |-> tasks'[1].title, tags |-> tasks'[1].tags])
    ]_vars

\* addTask has made a task of a text with a title and the same tag twice
ParseTaskInputAsStatedWitness ==
  /\ ~crashed
  /\ lastOp = Op("addTask", TRUE)
  /\ tasks[1].title = <<"a">>
  /\ tasks[1].tags = << <<"w">>, <<"w">> >>

----------------------------------------------------------------------------
(* Vocabulary of the properties of the suggestions *)

\* the current word: from the nearest space before the cursor, or from the
\* start of the text, up to the cursor
CurrentWord(text, cursor) ==
  LET spaces == { p \in 1..cursor : text[p] = Space }
      from   == IF spaces = {} THEN 1
                ELSE 1 + CHOOSE p \in spaces : \A q \in spaces : q <= p
  IN  SubSeq(text, from, cursor)

Qualifies(word) == Len(word) > 1 /\ word[1] = Hash

Term(word) == toLowerCase(Tail(word))

KnownTags == { allTags(build, tasks)[k] : k \in 1..Len(allTags(build, tasks)) }

Containing(term) == { t \in KnownTags : includes(toLowerCase(t), term) }

Starting(term) == { t \in KnownTags : startsWith(toLowerCase(t), term) }

Suggested == { suggestedTags[k] : k \in 1..Len(suggestedTags) }

(* C16: after a change of the text, if the current word starts with '#'    *)
(* and is longer than one character, the suggestions are known tags that   *)
(* contain the lowercased term, case-insensitively, those that start with  *)
(* the term before those that only contain it, cut to the first 5;         *)
(* otherwise there are no suggestions.                                     *)
SuggestionsAsStated ==
  lastOp = Op("handleInputChange", TRUE) =>
    LET word == CurrentWord(inputValue, selectionStart)
        term == Term(word)
    IN  IF Qualifies(word)
        THEN /\ Suggested \subseteq Containing(term)
             /\ Cardinality(Suggested) = Len(suggestedTags)
             /\ Len(suggestedTags)
                  = IF Cardinality(Containing(term)) < 5
                    THEN Cardinality(Containing(term)) ELSE 5
             /\ \A i, j \in 1..Len(suggestedTags) :
                  (i < j /\ suggestedTags[j] \in Starting(term))
                    => suggestedTags[i] \in Starting(term)
             /\ \A t \in Containing(term) \ Suggested :
                  t \in Starting(term) => Suggested \subseteq Starting(term)
        ELSE suggestedTags = <<>>

\* seven known tags contain the term: five are suggested, four that start
\* with the term and one that only contains it
SuggestionsAsStatedWitness ==
  /\ lastOp = Op("handleInputChange", TRUE)
  /\ Qualifies(CurrentWord(inputValue, selectionStart))
  /\ Cardinality(Containing(Term(CurrentWord(inputValue, selectionStart)))) = 7
  /\ Len(suggestedTags) = 5
  /\ Cardinality(Suggested \cap Starting(Term(CurrentWord(inputValue, selectionStart)))) = 4

----------------------------------------------------------------------------
\* the known tags are urgent, urgently and surge, and '#ur' was typed
UrgentTyped ==
  /\ lastOp = Op("handleInputChange", TRUE)
  /\ KnownTags = { Urgent, Urgently, Surge }
  /\ inputValue = << "#", "u", "r" >>
  /\ selectionStart = Len(inputValue)

\* C17 as stated: with the known tags urgent, urgently and surge and the
\* text '#ur', the cursor at its end, the suggestions are urgent, urgently,
\* in that order, and surge is not suggested.
UrgentSuggestedWithoutSurge ==
  UrgentTyped => suggestedTags = << Urgent, Urgently >>

\* C17 amended: with the known tags urgent, urgently and surge and the text
\* '#ur', the cursor at its end, the suggestions are urgent, urgently, surge
\* in that order: surge holds 'ur' and comes after the two tags that start
\* with it.
UrgentSuggestedBeforeSurge ==
  UrgentTyped => suggestedTags = << Urgent, Urgently, Surge >>

UrgentSuggestedBeforeSurgeWitness == UrgentTyped /\ Len(suggestedTags) = 3

----------------------------------------------------------------------------
\* the text and the caret after tag has replaced the current word
Inserted(text, cursor, tag) ==
  LET word   == CurrentWord(text, cursor)
      before == SubSeq(text, 1, cursor - Len(word))
      after  == SubSeq(text, cursor + 1, Len(text))
      spacer == IF after # <<>> /\ after[1] = Space THEN <<>> ELSE <<Space>>
  IN  [text   |-> before \o <<Hash>> \o tag \o spacer \o after,
       cursor |-> Len(before) + 1 + Len(tag) + Len(spacer)]

(* C18: for every text, cursor position (0 included) and chosen tag,       *)
(* insertTag replaces only the current word by '#' and the tag, followed   *)
(* by one added space unless the character after the cursor is a space;    *)
(* the text before the current word and the text after the cursor are kept *)
(* exactly once, and the cursor comes to stand right after the inserted    *)
(* tag and spacer.                                                         *)
InsertTagReplacesCurrentWord ==
  [][lastOp'.name = "insertTag" =>
       \E k \in 1..Len(suggestedTags) :
         /\ inputValue' = Inserted(inputValue, selectionStart, suggestedTags[k]).text
         /\ selectionStart' = Inserted(inputValue, selectionStart, suggestedTags[k]).cursor
    ]_vars

----------------------------------------------------------------------------
\* the inputs that are empty or hold nothing but spaces
BlankInputs == { val \in RawInputs : \A i \in 1..Len(val) : val[i] = Space }

(* C19: submitting an empty or whitespace-only input as a root task or as  *)
(* a subtask never reaches the tree: the tree after the submission is the  *)
(* tree before it and no node is created.                                  *)
BlankNeverReachesTree ==
  [][\A val \in BlankInputs, r \in Rands :
       /\ addTask(val, r) => (tasks' = tasks /\ storage' = storage)
       /\ \A id \in RenderedIds :
            (handleAddSubtask(id, val, r) \/ onAddSubtask(id, val, r))
              => (tasks' = tasks /\ storage' = storage)
    ]_vars

\* a blank input was submitted as a subtask of a node of a tree with
\* nested nodes
BlankNeverReachesTreeWitness ==
  /\ ~crashed
  /\ lastOp = Op("handleAddSubtask", FALSE)
  /\ Nested(tasks)

----------------------------------------------------------------------------
(* C20: no node, root task or subtask at any depth, is ever removed from   *)
(* the tree without a confirmation that was answered positively; when the  *)
(* confirmation is declined the tree is unchanged.                         *)
NoRemovalWithoutConfirmation ==
  [][/\ (\E id \in IdsOf(tasks) : id \notin IdsOf(tasks'))
          => \E id \in RenderedIds : handleDelete(id, TRUE) \/ onDelete(id, TRUE)
     /\ \A id \in RenderedIds :
          (handleDelete(id, FALSE) \/ onDelete(id, FALSE)) => tasks' = tasks
    ]_vars

----------------------------------------------------------------------------
\* the names of the handlers that change the tree
Mutations ==
  { "addTask", "handleUpdate", "handleToggle", "handleDelete", "handleAddSubtask",
    "onUpdate", "onToggle", "onDelete", "onAddSubtask",
    "onUpdateSubtask", "onToggleSubtask", "onDeleteSubtask" }

\* the step is a mutation of the tree that got to setTasks
Mutated == lastOp'.name \in Mutations /\ lastOp'.applied /\ tasks' # tasks

(* C21: a save that fails, the write to the storage raising an error,      *)
(* does not disturb the interaction: after a mutation whose save fails the *)
(* App is still running with the tree the mutation has produced, and no    *)
(* error has come out of the save.                                         *)
FailedSaveKeepsAppRunning ==
  [][(Mutated /\ quotaExceeded) => ~crashed']_vars

----------------------------------------------------------------------------
(* C22: after every mutation of the tree (a task or a subtask added, a     *)
(* node toggled, updated or deleted) the save runs on the tree the         *)
(* mutation has produced: between the events, the blob in the storage is   *)
(* the serialization of the tree in memory.                                *)
StorageHoldsCurrentTree ==
  ~crashed => storage = JSONstringify(tasks)

\* this session has added a subtask and then toggled a node: the storage
\* holds neither the tree found at the start nor the one in between
StorageHoldsCurrentTreeWitness ==
  /\ ~crashed
  /\ lastOp = Op("handleToggle", TRUE)
  /\ Nested(tasks)
  /\ \E i \in 1..Len(Flatten(tasks)) :
       /\ Has(Flatten(tasks)[i], "parentId")
       /\ Flatten(tasks)[i].createdAt >= StartTime

----------------------------------------------------------------------------
(* Vocabulary of the frame of toggleInTree *)

\* the properties a toggle writes
ToggleFields == { "isCompleted", "completedAt", "updatedAt" }

\* the tree without the properties a toggle writes in the nodes with the id
RECURSIVE WithoutToggleFields(_, _)
WithoutToggleFields(items, id) ==
  [i \in 1..Len(items) |->
     LET item == items[i]
         keep == IF IdIs(item, id) THEN DOMAIN item \ ToggleFields ELSE DOMAIN item
     IN  [f \in keep |-> IF f = "subtasks" THEN WithoutToggleFields(item[f], id)
                         ELSE item[f]]]

\* the positions, in the order of Flatten, of the nodes that differ in a
\* property of their own
ChangedNodes(before, after) ==
  { i \in 1..Len(Flatten(before)) : Own(Flatten(after)[i]) # Own(Flatten(before)[i]) }

ToggleChangesOneNode(id) ==
  LET after == toggleInTree(tasks, id, now)
  IN  /\ WithoutToggleFields(after, id) = WithoutToggleFields(tasks, id)
      /\ Cardinality(ChangedNodes(tasks, after)) = 1
      /\ Find(after, id).isCompleted = ~Find(tasks, id).isCompleted

\* C23 as stated: toggleInTree with an id that is in the tree, at any depth,
\* changes exactly one node, and of that node only isCompleted, completedAt
\* and updatedAt: its id, title, tags, createdAt and subtasks, and every
\* property of every other node, ancestor or descendant, stay as they are.
ToggleChangesExactlyOneNode ==
  ~crashed => \A id \in IdsOf(tasks) : ToggleChangesOneNode(id)

\* C23 amended: in a tree with pairwise distinct ids, toggleInTree with an id
\* that is in the tree changes exactly one node, and of that node only
\* isCompleted, completedAt and updatedAt; every other property and every
\* other node stay as they are.  (Two nodes that carry the same id, neither
\* inside the other, are toggled both.)
ToggleChangesOneNodeOfDistinctIds ==
  (~crashed /\ DistinctIds(tasks)) => \A id \in IdsOf(tasks) : ToggleChangesOneNode(id)

\* a toggle has completed the middle node of a chain of three nodes with
\* distinct ids, whose parent and child are incomplete
ToggleChangesOneNodeWitness ==
  /\ ~crashed /\ DistinctIds(tasks)
  /\ lastOp = Op("handleToggle", TRUE)
  /\ \E i \in 1..Len(tasks) : \E k \in 1..Len(tasks[i].subtasks) :
       LET st == tasks[i].subtasks[k] IN
       /\ ~tasks[i].isCompleted
       /\ st.isCompleted /\ st.updatedAt = now
       /\ HasSubtasks(st) /\ ~st.subtasks[1].isCompleted

----------------------------------------------------------------------------
(* Vocabulary of the identity of a node *)

\* what a node is given when it is created and is to keep
Identity(item) ==
  [id        |-> IF Has(item, "id") THEN item.id ELSE Undefined,
   parentId  |-> IF Has(item, "parentId") THEN item.parentId ELSE Undefined,
   createdAt |-> IF Has(item, "createdAt") THEN item.createdAt ELSE Undefined]

\* the updates that the description box passes
DescriptionUpdates == { [description |-> d] : d \in DescriptionInputs }

\* objects of the type Partial<Subtask> that updateInTree accepts
PartialSubtasks ==
  DescriptionUpdates \cup
  { [title |-> <<"w">>], [id |-> generateId(2, 0)], [parentId |-> generateId(2, 0)],
    [createdAt |-> now], [subtasks |-> <<>>] }

\* the nodes that are in the tree before and after the step keep what they
\* were given
StepKeepsIdentity ==
  (~crashed /\ ~crashed' /\ lastOp'.name # "load"
     /\ DistinctIds(tasks) /\ DistinctIds(tasks')) =>
    \A id \in IdsOf(tasks) \cap IdsOf(tasks') :
      Identity(Find(tasks', id)) = Identity(Find(tasks, id))

\* updateInTree with these updates leaves the identity and the subtasks of
\* every node as they are
UpdateKeepsIdentity(updates) ==
  \A id \in IdsOf(tasks) :
    LET before == Flatten(tasks)
        after  == Flatten(updateInTree(tasks, id, updates, now))
    IN  /\ Len(after) = Len(before)
        /\ \A i \in 1..Len(before) :
             i <= Len(after) =>
               /\ Identity(after[i]) = Identity(before[i])
               /\ ChildIds(after[i]) = ChildIds(before[i])

(* C24: through every operation a node that stays in the tree keeps the    *)
(* id, parentId and createdAt it was created with, and updateInTree never  *)
(* changes the id, parentId, createdAt or subtasks of any node, whatever   *)
(* its updates argument holds.                                             *)
IdentityNeverChanges ==
  [][/\ StepKeepsIdentity
     /\ ~crashed => \A updates \in PartialSubtasks : UpdateKeepsIdentity(updates)
    ]_vars

\* the same with the updates of the description box alone, the only ones
\* the components pass
IdentityKeptByDescriptionUpdates ==
  [][/\ StepKeepsIdentity
     /\ ~crashed => \A updates \in DescriptionUpdates : UpdateKeepsIdentity(updates)
    ]_vars

----------------------------------------------------------------------------
\* the toggles and updates of the tree App and those of the root tasks of
\* src/App.tsx set updatedAt of the node to the time of the operation
UpdatedAtRefreshedBut ==
  /\ \A id \in RenderedIds :
       (handleToggle(id) \/ \E d \in DescriptionInputs : handleUpdate(id, d))
         => Find(tasks', id).updatedAt = now
  /\ \A id \in RenderedIds :
       (onToggle(id) \/ \E d \in DescriptionInputs : onUpdate(id, d))
         => FindIn(tasks', id).updatedAt = now
  /\ \A i \in 1..Len(tasks), k \in 1..MaxNodes :
       (\E d \in DescriptionInputs : onUpdateSubtask(i, k, d))
         => tasks'[i].subtasks[k].updatedAt = now

(* C25: every toggle of the completion and every update of a field of a    *)
(* node, root task or subtask at any depth, sets updatedAt of that node to *)
(* the time of the operation.                                              *)
UpdatedAtRefreshed ==
  [][/\ UpdatedAtRefreshedBut
     /\ \A i \in 1..Len(tasks), k \in 1..MaxNodes :
          onToggleSubtask(i, k) => tasks'[i].subtasks[k].updatedAt = now
    ]_vars

\* the same without the toggle of a subtask in src/App.tsx
UpdatedAtRefreshedButSubtaskToggle == [][UpdatedAtRefreshedBut]_vars

----------------------------------------------------------------------------------------------------------------------------------------
(* Vocabulary of the containment of the nodes *)

\* the root tasks have no parentId, and the parentId of a subtask is the id
\* of the node whose subtasks hold it
ParentLinks(items) ==
  /\ \A i \in 1..Len(items) : ~Has(items[i], "parentId")
  /\ \A i \in 1..Len(Flatten(items)) :
       LET node == Flatten(items)[i] IN
       \A k \in 1..Len(SubtasksOf(node)) :
         /\ Has(node.subtasks[k], "parentId")
         /\ node.subtasks[k].parentId = node.id

\* the step is a handleAddSubtask that got to setTasks
AddsSubtask ==
  lastOp'.name = "handleAddSubtask" /\ lastOp'.applied /\ tasks' # tasks

\* the number of subtasks lists that have got the new subtask: addToTree
\* puts the one object newSubtask at the end of the subtasks of every node
\* it matches
ContainersOfNew == CountNodes(tasks') - CountNodes(tasks)

\* C26 as stated: in every reachable state the parentId of every subtask is
\* the id of the node whose subtasks directly contain it, no root task has a
\* parentId, and every node has exactly one container (the tree is a forest
\* without sharing): the subtask that handleAddSubtask makes is put into the
\* subtasks of one node.
ForestOfParentLinks ==
  [][/\ ~crashed => ParentLinks(tasks)
     /\ ~crashed' => ParentLinks(tasks')
     /\ AddsSubtask => ContainersOfNew = 1
    ]_vars

\* C26 amended: in every reachable state the parentId of every subtask is
\* the id of the node whose subtasks directly contain it and no root task
\* has a parentId; a new subtask gets exactly one container when the ids of
\* the tree are pairwise distinct (under an id that two nodes carry, neither
\* inside the other, the one new subtask is put into the subtasks of both).
ParentLinksInForest ==
  [][/\ ~crashed => ParentLinks(tasks)
     /\ ~crashed' => ParentLinks(tasks')
     /\ (AddsSubtask /\ DistinctIds(tasks)) => ContainersOfNew = 1
    ]_vars

\* a subtask was added to a subtask in a tree of distinct ids
ParentLinksInForestWitness ==
  /\ ~crashed /\ DistinctIds(tasks)
  /\ lastOp.name = "handleAddSubtask" /\ lastOp.applied
  /\ \E i \in 1..Len(tasks) : \E k \in 1..Len(tasks[i].subtasks) :
       /\ HasSubtasks(tasks[i].subtasks[k])
       /\ tasks[i].subtasks[k].subtasks[1].createdAt = now

----------------------------------------------------------------------------
(* C27: in every reachable state every node made by addTask or by the      *)
(* submission of a subtask has a title that is not empty: an input that    *)
(* passes the check for blank inputs parses to a title that is not empty   *)
(* (an input of tags alone gives the raw input for title), and no later    *)
(* operation empties a title.                                              *)
TitlesNeverEmpty ==
  /\ \A val \in RawInputs \cup TypedTexts :
       trim(val) # <<>> => parseTaskInput(val).title # <<>>
  /\ ~crashed =>
       \A i \in 1..Len(Flatten(tasks)) :
         Has(Flatten(tasks)[i], "title") /\ Flatten(tasks)[i].title # <<>>

\* a subtask was made in this session from an input of one tag alone, and a
\* node was updated after that
TitlesNeverEmptyWitness ==
  /\ ~crashed
  /\ lastOp.name \in { "handleUpdate", "onUpdateSubtask" } /\ lastOp.applied
  /\ \E i \in 1..Len(Flatten(tasks)) :
       LET node == Flatten(tasks)[i] IN
       /\ Has(node, "parentId")
       /\ node.createdAt >= StartTime
       /\ node.title = <<"#", "w">> /\ node.tags = << <<"w">> >>

----------------------------------------------------------------------------
\* createdAt <= updatedAt, and createdAt <= completedAt <= updatedAt for a
\* completed node
TimestampsOrdered(node) ==
  /\ node.createdAt <= node.updatedAt
  /\ node.isCompleted =>
       /\ node.createdAt <= CompletedAtOf(node)
       /\ CompletedAtOf(node) <= node.updatedAt

(* C28: with a clock that never goes back, in every state reached by       *)
(* adding tasks and subtasks, toggling, updating and deleting, every node  *)
(* at every depth has createdAt <= updatedAt, and every completed node has *)
(* createdAt <= completedAt <= updatedAt.                                  *)
TimestampsInOrder ==
  ~crashed => \A i \in 1..Len(Flatten(tasks)) : TimestampsOrdered(Flatten(tasks)[i])

----------------------------------------------------------------------------
\* the settings of the status and date filters under which the view is
\* grouped
GroupingSettings ==
  { f \in StatusAndDateSettings : f.status = "completed" \/ f.date # NoDate }

\* the tasks of all groups, group after group
TasksOfGroups(groups) ==
  LET acc[n \in 0..Len(groups)] ==
        IF n = 0 THEN <<>> ELSE acc[n - 1] \o groups[n].tasks
  IN  acc[Len(groups)]

(* C29: whenever the view is grouped (status filter 'completed', or a      *)
(* completion date set), every task of the sorted filtered list is in      *)
(* exactly one group of dates: no task that has passed the filter is       *)
(* missing from what is shown, and a filtered list that is not empty is    *)
(* never shown as no tasks.                                                *)
GroupsCoverSortedView ==
  ~crashed =>
    \A f \in GroupingSettings :
      LET sorted == Sorted(f)
          shown  == Shown(f)
      IN  IF sorted = <<>> THEN shown.shows = "empty"
          ELSE /\ shown.shows = "groups"
               /\ Len(TasksOfGroups(shown.groups)) = Len(sorted)
               /\ \A i \in 1..Len(sorted) :
                    /\ Occurrences(TasksOfGroups(shown.groups), sorted[i])
                         = Occurrences(sorted, sorted[i])
                    /\ Cardinality({ g \in 1..Len(shown.groups) :
                                       Includes(shown.groups[g].tasks, sorted[i]) }) = 1

\* with a completion date set and the status filter 'all', the view shows
\* one group of two tasks, while a third task is filtered out
GroupsCoverSortedViewWitness ==
  /\ ~crashed /\ Len(tasks) = 3
  /\ \E d \in DateFilters \ {NoDate} :
       LET f == [status |-> "all", date |-> d, search |-> <<>>, tags |-> <<>>]
       IN  /\ Shown(f).shows = "groups"
           /\ Len(Shown(f).groups) = 1
           /\ Len(Shown(f).groups[1].tasks) = 2

----------------------------------------------------------------------------
(* C30: in every reachable state every tag selected on the filter is in    *)
(* the tag index, the tags the panel offers for selection and deselection, *)
(* also after the last node with a selected tag was deleted.               *)
SelectedTagsAreKnown ==
  ~crashed =>
    \A k \in 1..Len(selectedTags) : Includes(allTags(build, tasks), selectedTags[k])

====
